---- MODULE Spec2Model ----
(***************************************************************************)
(* Amber Energy integration: the coordinator that polls the price API      *)
(* (__init__.py, api.py) and the sensors that select the "current" and     *)
(* "next" interval of a snapshot (sensor.py).                              *)
(*                                                                         *)
(* Time is counted in whole interval steps.  An aware datetime is the      *)
(* record [instant, tz]; two aware datetimes compare by instant.           *)
(* An interval dict is identified by its position in the delivered list,   *)
(* so that two dicts with equal contents are still told apart.             *)
(***************************************************************************)
EXTENDS Integers, Sequences, FiniteSets, TLC

VARIABLES phase, data, last_update_success, clock, reading, selection

vars == <<phase, data, last_update_success, clock, reading, selection>>

-----------------------------------------------------------------------------
(* Bounds of the model *)

MaxLen == 3       \* longest interval list of a selection input
MaxWall == 2      \* latest wall-clock time a nemTime string names
MaxClock == 2     \* latest value of dt_util.now()

-----------------------------------------------------------------------------
(* JSON values of the API response *)

PriceTypes == {"general", "feedin"}

\* A nemTime field: the key is missing, or holds a string.  "garbage" is a
\* string parse_datetime does not match (it returns None), "invalid" one it
\* matches but cannot build a datetime from (it raises ValueError), "iso" a
\* well-formed timestamp of wall-clock time `wall` at UTC offset `off`.
NoNemTime == [kind |-> "missing", wall |-> 0, off |-> 0]
EmptyNemTime == [kind |-> "empty", wall |-> 0, off |-> 0]
GarbageNemTime == [kind |-> "garbage", wall |-> 0, off |-> 0]
InvalidNemTime == [kind |-> "invalid", wall |-> 0, off |-> 0]
Iso(w, o) == [kind |-> "iso", wall |-> w, off |-> o]

\* A perKwh / renewables / descriptor field: missing key, JSON null, a string,
\* or a number (in thousandths).
NoField == [kind |-> "missing", val |-> 0]
NullField == [kind |-> "null", val |-> 0]
StrField == [kind |-> "str", val |-> 0]
Num(v) == [kind |-> "num", val |-> v]

Interval(nem, p, r, desc) ==
    [nemTime |-> nem, perKwh |-> p, renewables |-> r, descriptor |-> desc]

\* The value of the priceData / feedInPriceData key: key missing, or a list
\* of groups; a group holds the key "intervals" or not.
NoGroups == [kind |-> "missing", intervals |-> <<>>]
EmptyGroups == [kind |-> "empty", intervals |-> <<>>]
GroupNoIntervals == [kind |-> "nokey", intervals |-> <<>>]
Group(s) == [kind |-> "group", intervals |-> s]

\* coordinator.data: None before the first refresh, else the response dict
NoData == [kind |-> "none", priceData |-> NoGroups, feedInPriceData |-> NoGroups]
Snapshot(g, f) == [kind |-> "dict", priceData |-> g, feedInPriceData |-> f]

-----------------------------------------------------------------------------
(* homeassistant.util.dt as the sensors use it *)

\* parse_datetime: None for a string that is no timestamp, ValueError for a
\* timestamp that names no datetime, else the aware datetime; the instant a
\* timestamp names is its wall clock time less its UTC offset.
ParseDatetime(nem) ==
    CASE nem.kind = "garbage" -> [kind |-> "none", instant |-> 0, tz |-> "none"]
      [] nem.kind = "invalid" -> [kind |-> "raised", instant |-> 0, tz |-> "none"]
      [] OTHER -> [kind |-> "dt", instant |-> nem.wall - nem.off, tz |-> "source"]

\* as_local keeps the instant and moves the datetime to the local zone
AsLocal(dt) == [kind |-> "dt", instant |-> dt.instant, tz |-> "local"]

\* dt_util.now() when the clock reads c
Now(c) == [kind |-> "dt", instant |-> c, tz |-> "local"]

-----------------------------------------------------------------------------
(* AmberBaseSensor *)

\* the None a selection returns; a selected interval is its 1-based position
\* in the delivered list
NoInterval == 0

\* _get_intervals: None, or the list under the first group's "intervals" key
GetIntervals(d, price_type) ==
    IF d.kind = "none" THEN [isNone |-> TRUE, list |-> <<>>]
    ELSE LET price_data == IF price_type = "general" THEN d.priceData
                           ELSE d.feedInPriceData
         IN  IF price_data.kind \in {"nokey", "group"}
             THEN [isNone |-> FALSE, list |-> price_data.intervals]
             ELSE [isNone |-> TRUE, list |-> <<>>]

\* mutant of Available: the outcome of the last update is not looked at
AvailableIgnoringUpdate(d, lus, price_type) ==
    LET intervals == GetIntervals(d, price_type)
    IN  ~intervals.isNone /\ Len(intervals.list) > 0

\* available: the last update succeeded and _get_intervals() is truthy
Available(d, lus, price_type) ==
    LET intervals == GetIntervals(d, price_type)
    IN  lus /\ ~intervals.isNone /\ Len(intervals.list) > 0

\* mutant of ParsedItem: a timestamp parse_datetime returns None for is kept
ParsedItemKeepsNone(intervals, i) ==
    LET nem == intervals[i].nemTime
    IN  IF nem.kind \in {"missing", "empty"} THEN <<>>
        ELSE LET dt == ParseDatetime(nem)
             IN  IF dt.kind = "raised" THEN <<>>
                 ELSE << [dt |-> AsLocal(dt), it |-> i] >>

\* the loop body of _intervals_with_dt: the (dt, it) appended for the
\* interval at position i, or nothing
ParsedItem(intervals, i) ==
    LET nem == intervals[i].nemTime
    IN  IF nem.kind \in {"missing", "empty"} THEN <<>>
        ELSE LET dt == ParseDatetime(nem)
             IN  IF dt.kind = "raised" THEN <<>>
                 ELSE IF dt.kind = "none" THEN <<>>
                 ELSE << [dt |-> AsLocal(dt), it |-> i] >>

RECURSIVE ParsedItems(_, _)
ParsedItems(intervals, n) ==
    IF n = 0 THEN <<>>
    ELSE ParsedItems(intervals, n - 1) \o ParsedItem(intervals, n)

\* mutant of InsertSorted: x goes in front of the elements of equal key
RECURSIVE InsertSortedUnstable(_, _)
InsertSortedUnstable(sorted, x) ==
    IF sorted = <<>> THEN <<x>>
    ELSE LET last == sorted[Len(sorted)]
         IN  IF last.dt.instant < x.dt.instant THEN Append(sorted, x)
             ELSE Append(InsertSortedUnstable(SubSeq(sorted, 1, Len(sorted) - 1), x),
                         last)

\* where list.sort puts x in an already sorted list: behind every element
\* whose key is not greater (the sort is stable)
RECURSIVE InsertSorted(_, _)
InsertSorted(sorted, x) ==
    IF sorted = <<>> THEN <<x>>
    ELSE LET last == sorted[Len(sorted)]
         IN  IF last.dt.instant <= x.dt.instant THEN Append(sorted, x)
             ELSE Append(InsertSorted(SubSeq(sorted, 1, Len(sorted) - 1), x), last)

\* items.sort(key=lambda x: x[0])
RECURSIVE SortItems(_, _)
SortItems(items, n) ==
    IF n = 0 THEN <<>>
    ELSE InsertSorted(SortItems(items, n - 1), items[n])

\* _intervals_with_dt
IntervalsWithDt(d, price_type) ==
    LET intervals == GetIntervals(d, price_type)
    IN  IF intervals.isNone \/ intervals.list = <<>> THEN <<>>
        ELSE LET items == ParsedItems(intervals.list, Len(intervals.list))
             IN  SortItems(items, Len(items))

\* mutant of PastItems: an interval starting exactly now is not past
PastItemsStrict(items, now) ==
    LET IsPast(x) == x.dt.instant < now.instant IN SelectSeq(items, IsPast)

\* mutant of FutureItems: an interval starting in the next step is not future
FutureItemsLate(items, now) ==
    LET IsFuture(x) == x.dt.instant > now.instant + 1 IN SelectSeq(items, IsFuture)

\* the two partitions of _get_current_interval
PastItems(items, now) ==
    LET IsPast(x) == x.dt.instant <= now.instant IN SelectSeq(items, IsPast)

FutureItems(items, now) ==
    LET IsFuture(x) == x.dt.instant > now.instant IN SelectSeq(items, IsFuture)

\* which return statement of _get_current_interval is taken
CurrentBranch(items, now) ==
    IF items = <<>> THEN "empty"
    ELSE IF PastItems(items, now) # <<>> THEN "past"
    ELSE IF FutureItems(items, now) # <<>> THEN "future"
    ELSE "fallback"

\* _get_current_interval
GetCurrentInterval(d, price_type, now) ==
    LET items == IntervalsWithDt(d, price_type)
        past_items == PastItems(items, now)
        future_items == FutureItems(items, now)
        branch == CurrentBranch(items, now)
    IN  CASE branch = "empty" -> NoInterval
          [] branch = "past" -> past_items[Len(past_items)].it
          [] branch = "future" -> future_items[1].it
          [] OTHER -> items[Len(items)].it

\* mutant of NextFutureItems: an interval starting exactly now is future
NextFutureItemsInclusive(items, now) ==
    LET IsFuture(x) == x.dt.instant >= now.instant IN SelectSeq(items, IsFuture)

\* the partition of _get_next_interval
NextFutureItems(items, now) ==
    LET IsFuture(x) == x.dt.instant > now.instant IN SelectSeq(items, IsFuture)

\* _get_next_interval
GetNextInterval(d, price_type, now) ==
    LET items == IntervalsWithDt(d, price_type)
        future_items == NextFutureItems(items, now)
    IN  IF items = <<>> THEN NoInterval
        ELSE IF future_items # <<>> THEN future_items[1].it
        ELSE NoInterval

-----------------------------------------------------------------------------
(* The four sensors *)

Sensors == {"current_price", "next_price", "renewables", "descriptor"}

NoValue == [kind |-> "none", val |-> 0]
RaisedValue == [kind |-> "raised", val |-> 0]
Value(v) == [kind |-> "value", val |-> v]

\* round(x, 2) of a number given in thousandths, in hundredths: the nearest
\* hundredth.  A decimal tie goes to the even hundredth here; on a float it
\* goes where the float's exact binary value lies, so the inputs hold no tie.
Round2(v) ==
    LET q == v \div 10
        r == v % 10
    IN  IF r > 5 \/ (r = 5 /\ q % 2 = 1) THEN q + 1 ELSE q

\* round(interval.get(key, 0), 2): the default 0 stands in for a missing key
\* only; round() raises TypeError on None and on a string
RoundField(f) ==
    CASE f.kind = "missing" -> Value(Round2(0))
      [] f.kind = "num" -> Value(Round2(f.val))
      [] OTHER -> RaisedValue

\* interval.get("descriptor")
GetField(f) == IF f.kind \in {"missing", "null"} THEN NoValue ELSE Value(f.val)

\* the interval a sensor reports on
SensorInterval(sensor, d, price_type, now) ==
    IF sensor = "next_price" THEN GetNextInterval(d, price_type, now)
    ELSE GetCurrentInterval(d, price_type, now)

\* native_value of the four sensor classes
NativeValue(sensor, d, price_type, now) ==
    LET interval == SensorInterval(sensor, d, price_type, now)
        it == GetIntervals(d, price_type).list[interval]
    IN  IF interval = NoInterval THEN NoValue
        ELSE CASE sensor \in {"current_price", "next_price"} -> RoundField(it.perKwh)
               [] sensor = "renewables" -> RoundField(it.renewables)
               [] OTHER -> GetField(it.descriptor)

\* extra_state_attributes of the four sensor classes: {} without an interval,
\* else the dict built from the interval; only the descriptor sensor rounds
\* a field while building it
ExtraStateAttributes(sensor, d, price_type, now) ==
    LET interval == SensorInterval(sensor, d, price_type, now)
        it == GetIntervals(d, price_type).list[interval]
    IN  IF interval = NoInterval THEN [kind |-> "empty", it |-> NoInterval]
        ELSE IF sensor = "descriptor" /\ RoundField(it.perKwh) = RaisedValue
             THEN [kind |-> "raised", it |-> NoInterval]
        ELSE [kind |-> "attrs", it |-> interval]

-----------------------------------------------------------------------------
(* Inputs *)

\* the timestamps of a selection input
NemTimes ==
    {NoNemTime, GarbageNemTime, InvalidNemTime}
        \cup {Iso(w, 0) : w \in 1..MaxWall} \cup {Iso(MaxWall + 1, 1)}

SelectIntervals == {Interval(nem, Num(12346), Num(45678), StrField) : nem \in NemTimes}

SeqsUpTo(S, n) == UNION {[1..k -> S] : k \in 0..n}

\* the responses get_prices delivers to the coordinator
ReadIntervals ==
    {Interval(nem, Num(12346), Num(45678), StrField) :
        nem \in {NoNemTime, EmptyNemTime, GarbageNemTime, InvalidNemTime, Iso(1, 0)}}
    \cup {Interval(Iso(1, 0), p, Num(45678), StrField) :
        p \in {NoField, NullField, StrField, Num(-3004)}}
    \cup {Interval(Iso(1, 0), Num(12346), r, NoField) : r \in {NoField, NullField}}

ReadGroups ==
    {NoGroups, EmptyGroups, GroupNoIntervals, Group(<<>>)}
        \cup {Group(<<iv>>) : iv \in ReadIntervals}
        \cup {Group(<<Interval(GarbageNemTime, Num(12346), Num(45678), StrField),
                      Interval(Iso(2, 0), Num(12346), Num(45678), StrField)>>)}

Responses == {Snapshot(g, f) : g \in ReadGroups, f \in ReadGroups}

-----------------------------------------------------------------------------
(* State *)

NoReading ==
    [sensor |-> "none", price_type |-> "none", available |-> FALSE,
     native_value |-> NoValue, attributes |-> [kind |-> "empty", it |-> NoInterval]]

Unread == [read |-> FALSE, now |-> 0, it |-> NoInterval, branch |-> "none"]

NoSelection == [price_type |-> "none", current |-> Unread, next |-> Unread]

\* the coordinator as DataUpdateCoordinator builds it
Init ==
    /\ phase = "setup"
    /\ data = NoData
    /\ last_update_success = TRUE
    /\ clock = 0
    /\ reading = NoReading
    /\ selection = NoSelection

-----------------------------------------------------------------------------
(* __init__.py *)

\* async_setup_entry: the first refresh; a failure raises ConfigEntryNotReady
\* and the entry is set up again later with a new coordinator
AsyncSetupEntry ==
    /\ phase = "setup"
    /\ \/ \E r \in Responses :
            /\ data' = r
            /\ last_update_success' = TRUE
            /\ phase' = "loaded"
            /\ UNCHANGED <<clock, reading, selection>>
       \/ UNCHANGED vars

\* async_update_data on the coordinator's schedule, get_prices returning r:
\* the snapshot is replaced and the sensors are written anew
AsyncUpdateData(r) ==
    /\ phase = "loaded"
    /\ data' = r
    /\ last_update_success' = TRUE
    /\ reading' = NoReading
    /\ UNCHANGED <<phase, clock, selection>>

\* async_update_data raising UpdateFailed: the coordinator logs it, keeps its
\* data and records the failure
UpdateFailed ==
    /\ phase = "loaded"
    /\ last_update_success' = FALSE
    /\ reading' = NoReading
    /\ UNCHANGED <<phase, data, clock, selection>>

\* async_unload_entry
AsyncUnloadEntry ==
    /\ phase = "loaded"
    /\ phase' = "setup"
    /\ data' = NoData
    /\ last_update_success' = TRUE
    /\ reading' = NoReading
    /\ UNCHANGED <<clock, selection>>

\* time passes
Tick ==
    /\ clock < MaxClock
    /\ clock' = clock + 1
    /\ UNCHANGED <<phase, data, last_update_success, reading, selection>>

-----------------------------------------------------------------------------
(* sensor.py *)

\* the host reads a sensor's available, native_value and
\* extra_state_attributes
ReadSensor(sensor, price_type) ==
    /\ phase = "loaded"
    /\ reading' =
        [sensor |-> sensor, price_type |-> price_type,
         available |-> Available(data, last_update_success, price_type),
         native_value |-> NativeValue(sensor, data, price_type, Now(clock)),
         attributes |-> ExtraStateAttributes(sensor, data, price_type, Now(clock))]
    /\ UNCHANGED <<phase, data, last_update_success, clock, selection>>

Next ==
    \/ AsyncSetupEntry
    \/ \E r \in Responses : AsyncUpdateData(r)
    \/ UpdateFailed
    \/ AsyncUnloadEntry
    \/ Tick
    \/ \E sensor \in Sensors, price_type \in PriceTypes : ReadSensor(sensor, price_type)

Spec == Init /\ [][Next]_vars

-----------------------------------------------------------------------------
(* Selection on a given snapshot: the current and the next interval of one  *)
(* price type, read one after the other as the two price sensors are        *)

SelectResponse(price_type, s) ==
    IF price_type = "general" THEN Snapshot(Group(s), NoGroups)
    ELSE Snapshot(NoGroups, Group(s))

InitSelect ==
    /\ phase = "loaded"
    /\ last_update_success = TRUE
    /\ reading = NoReading
    /\ clock \in 0..MaxClock
    /\ \E price_type \in PriceTypes, s \in SeqsUpTo(SelectIntervals, MaxLen) :
        /\ data = SelectResponse(price_type, s)
        /\ selection = [price_type |-> price_type, current |-> Unread, next |-> Unread]

\* the current price sensor calls _get_current_interval
CallGetCurrentInterval ==
    /\ ~selection.current.read
    /\ selection' =
        [selection EXCEPT !.current =
            [read |-> TRUE, now |-> clock,
             it |-> GetCurrentInterval(data, selection.price_type, Now(clock)),
             branch |-> CurrentBranch(IntervalsWithDt(data, selection.price_type),
                                      Now(clock))]]
    /\ UNCHANGED <<phase, data, last_update_success, clock, reading>>

\* the next price sensor calls _get_next_interval
CallGetNextInterval ==
    /\ selection.current.read
    /\ ~selection.next.read
    /\ selection' =
        [selection EXCEPT !.next =
            [read |-> TRUE, now |-> clock,
             it |-> GetNextInterval(data, selection.price_type, Now(clock)),
             branch |-> "none"]]
    /\ UNCHANGED <<phase, data, last_update_success, clock, reading>>

NextSelect ==
    \/ CallGetCurrentInterval
    \/ CallGetNextInterval
    \/ Tick

SpecSelect == InitSelect /\ [][NextSelect]_vars

-----------------------------------------------------------------------------
(* What the claims speak of, stated on the delivered list itself *)

\* the list delivered for the price type of the selection
Delivered ==
    IF selection.price_type = "general" THEN data.priceData.intervals
    ELSE data.feedInPriceData.intervals

Parses(iv) == iv.nemTime.kind = "iso"
InstantOf(iv) == iv.nemTime.wall - iv.nemTime.off

ValidIdx == {i \in 1..Len(Delivered) : Parses(Delivered[i])}
InstantAt(i) == InstantOf(Delivered[i])
PastIdx(now) == {i \in ValidIdx : InstantAt(i) <= now}
FutureIdx(now) == {i \in ValidIdx : InstantAt(i) > now}

AllParse == ValidIdx = 1..Len(Delivered)
DistinctInstants == \A i, j \in ValidIdx : InstantAt(i) = InstantAt(j) => i = j

BothRead == selection.current.read /\ selection.next.read

-----------------------------------------------------------------------------
\* C1: on a non-empty list whose timestamps all parse, with an interval at
\* or before now, the current interval is one whose instant is the greatest
\* instant at or before now, however many future intervals there are.
C1_CurrentIsLatestPast ==
    LET cur == selection.current
    IN  (cur.read /\ Delivered # <<>> /\ AllParse /\ PastIdx(cur.now) # {})
        => /\ cur.it \in PastIdx(cur.now)
           /\ \A j \in PastIdx(cur.now) : InstantAt(j) <= InstantAt(cur.it)

\* a past interval chosen in front of two future ones, delivered out of order
C1_Witness ==
    LET cur == selection.current
    IN  /\ cur.read /\ AllParse
        /\ Cardinality(FutureIdx(cur.now)) >= 2
        /\ PastIdx(cur.now) # {}
        /\ cur.it \in PastIdx(cur.now)
        /\ cur.it # 1

\* C2: on a list of future instants only, current is the earliest interval
\* and next the second-earliest one, absent when there is no second; current
\* and next differ when there are two intervals.
C2_AllFutureNextIsSecond ==
    LET cur == selection.current
        nxt == selection.next
        rest == FutureIdx(cur.now) \ {cur.it}
    IN  (BothRead /\ cur.now = nxt.now /\ Delivered # <<>> /\ AllParse
            /\ PastIdx(cur.now) = {})
        => /\ cur.it \in ValidIdx
           /\ \A j \in ValidIdx : InstantAt(cur.it) <= InstantAt(j)
           /\ IF rest = {} THEN nxt.it = NoInterval
              ELSE /\ nxt.it \in rest
                   /\ \A j \in rest : InstantAt(nxt.it) <= InstantAt(j)

\* C3: next is an interval of the least instant after now when there is an
\* interval after now, and absent otherwise; it is never at or before now.
C3_NextIsEarliestFuture ==
    LET nxt == selection.next
    IN  nxt.read
        => IF FutureIdx(nxt.now) = {} THEN nxt.it = NoInterval
           ELSE /\ nxt.it \in FutureIdx(nxt.now)
                /\ \A j \in FutureIdx(nxt.now) : InstantAt(nxt.it) <= InstantAt(j)

\* next chosen among two future intervals with a past one present
C3_Witness ==
    LET nxt == selection.next
    IN  /\ nxt.read
        /\ PastIdx(nxt.now) # {}
        /\ Cardinality(FutureIdx(nxt.now)) >= 2
        /\ nxt.it \in FutureIdx(nxt.now)

\* C6: the current and the next interval of one selection are computed
\* against the same value of now: next is what the instant current was
\* computed against makes it.
C6_NextAgainstCurrentNow ==
    LET cur == selection.current
        nxt == selection.next
    IN  BothRead
        => IF FutureIdx(cur.now) = {} THEN nxt.it = NoInterval
           ELSE /\ nxt.it \in FutureIdx(cur.now)
                /\ \A j \in FutureIdx(cur.now) : InstantAt(nxt.it) <= InstantAt(j)

-----------------------------------------------------------------------------
\* the list without its malformed intervals, and where interval i of the
\* list stands in it
WithoutMalformed == SelectSeq(Delivered, Parses)
RankOf(i) == IF i = NoInterval THEN NoInterval
             ELSE Cardinality({j \in ValidIdx : j <= i})

-----------------------------------------------------------------------------
\* the orders in which a list of n intervals can be delivered
Orders == [n \in 0..MaxLen |-> Permutations(1..n)]

\* the list delivered in the order p
Permuted(p) == [i \in 1..Len(Delivered) |-> Delivered[p[i]]]

\* the delivered position of what a selection on the permuted list returns
Unpermuted(p, i) == IF i = NoInterval THEN NoInterval ELSE p[i]

TiedWith(i) == {j \in ValidIdx : InstantAt(j) = InstantAt(i)}
Greatest(S) == CHOOSE i \in S : \A j \in S : j <= i
Least(S) == CHOOSE i \in S : \A j \in S : i <= j

\* C9: with pairwise distinct instants every order of delivery gives the
\* same current and the same next; among intervals tied at the greatest
\* instant at or before now current is the last delivered, among intervals
\* tied at the least instant after now next is the first delivered.
C9_OrderIndependent ==
    LET cur == selection.current
        nxt == selection.next
        pt == selection.price_type
    IN  /\ (cur.read /\ DistinctInstants) =>
            \A p \in Orders[Len(Delivered)] :
                Unpermuted(p, GetCurrentInterval(SelectResponse(pt, Permuted(p)),
                                                 pt, Now(cur.now))) = cur.it
        /\ (nxt.read /\ DistinctInstants) =>
            \A p \in Orders[Len(Delivered)] :
                Unpermuted(p, GetNextInterval(SelectResponse(pt, Permuted(p)),
                                              pt, Now(nxt.now))) = nxt.it
        /\ (cur.read /\ PastIdx(cur.now) # {}) =>
            /\ cur.it \in PastIdx(cur.now)
            /\ cur.it = Greatest(TiedWith(cur.it))
        /\ (nxt.read /\ FutureIdx(nxt.now) # {}) =>
            /\ nxt.it \in FutureIdx(nxt.now)
            /\ nxt.it = Least(TiedWith(nxt.it))

\* two intervals tied at the current instant, delivered behind a later one
C9_Witness ==
    LET cur == selection.current
    IN  /\ cur.read
        /\ cur.it \in PastIdx(cur.now)
        /\ Cardinality(TiedWith(cur.it)) >= 2
        /\ \E i \in ValidIdx : i < cur.it /\ InstantAt(i) > InstantAt(cur.it)

-----------------------------------------------------------------------------
(* The sensors under the coordinator *)

\* C4: a sensor whose price type has no current interval (group absent,
\* empty or wholly malformed) reports unavailable.
C4_AbsentIsUnavailable ==
    (reading.sensor = "current_price" /\ reading.native_value = NoValue)
        => ~reading.available

\* C5 as claimed: after a failed update that follows a successful one a
\* sensor goes on showing the value of the retained snapshot and does not
\* drop to unavailable.
C5_StaleStaysAvailable ==
    (phase = "loaded" /\ ~last_update_success /\ reading.native_value.kind = "value")
        => reading.available

\* C5 amended: a failed update leaves the coordinator loaded and its snapshot
\* in place, every sensor read after it reports unavailable while its value
\* is still the one of the retained snapshot, and the next successful update
\* puts the delivered response in the snapshot's place.
C5_FailedUpdateKeepsSnapshot ==
    [][/\ (last_update_success /\ ~last_update_success')
            => (data' = data /\ phase' = phase)
       /\ (~last_update_success' /\ reading' # NoReading)
            => (~reading'.available /\ data' = data)
       /\ (~last_update_success' /\ reading' # reading /\ reading' # NoReading)
            => reading'.native_value =
                 NativeValue(reading'.sensor, data, reading'.price_type, Now(clock))
       /\ (~last_update_success /\ last_update_success' /\ phase' = "loaded")
            => (data' \in Responses /\ reading' = NoReading)]_vars

\* a current price read after a failed update: unavailable, with the value
\* of the retained snapshot
C5_Witness ==
    /\ ~last_update_success
    /\ reading.sensor = "current_price"
    /\ ~reading.available
    /\ reading.native_value.kind = "value"

\* C8: no read of a sensor's value or attributes raises.
C8_ReadNeverRaises ==
    /\ reading.native_value.kind # "raised"
    /\ reading.attributes.kind # "raised"

====
